---- MODULE Spec2Model ----
(***************************************************************************)
(* Model of the asynchronous job-execution subsystem of the video          *)
(* processing service: the Redis-backed JobService (job records and the    *)
(* jobs:status:{state} / user:{user}:jobs indexes), the VideoJob state      *)
(* methods, the Celery task generate_video_async with its failure handler  *)
(* VideoGenerationTask.on_failure, the progress emitted by                 *)
(* VideoGenerationService.generate_video, the cancel endpoint with the     *)
(* cancel_job task, and the periodic cleanup.                              *)
(*                                                                         *)
(* Granularity: one action per JobService call made by the task (each call *)
(* is a get_job followed by update_job) and one per handler elsewhere; the *)
(* worker, the API and the beat scheduler interleave between the actions.  *)
(* The model follows the life of one job: a JobService call reads and      *)
(* writes one job's record and adds or removes only that job's id in the   *)
(* index sets, so jobs do not influence each other.                        *)
(*                                                                         *)
(* Spec and FairSpec follow a job through the Celery task. Three further   *)
(* specifications follow the other components from the same initial state: *)
(* QueueSpec the in-process JobQueue with its worker coroutines (one step   *)
(* per stretch of code between two awaits), SubmitSpec the two submission   *)
(* operations with the rate limit of VideoProcessor, and ServiceSpec the    *)
(* JobService methods called in any order while the clock advances, with    *)
(* cleanup_old_jobs split between its scan of a job and its delete_job.     *)
(* Four more look at one call path each: CreateSpec create_job followed by *)
(* get_job, through to_dict and from_dict; RaceSpec two clients whose      *)
(* mutators interleave between get_job and update_job; PushSpec the events *)
(* of one run of JobQueue.worker and VideoProcessor._process_video_async,  *)
(* with the callbacks of the event loop run in the order they were         *)
(* scheduled; RoomSpec the Socket.IO room of the job while clients         *)
(* subscribe and unsubscribe. Three more follow a data structure each:     *)
(* RouteSpec the queue and priority of the messages POST /jobs sends to    *)
(* the broker; IndexSpec the jobs:status:{state} sorted sets with their    *)
(* scores, for two jobs; SceneSpec the Scene objects and the cache of the  *)
(* VideoSceneRenderer under concurrent calls of generate_video on one      *)
(* VideoGenerationService, one step per write of a Scene attribute.        *)
(*                                                                         *)
(* Redis keys written with setex / expire carry an expiry time and are     *)
(* dropped by Tick when the clock reaches it. work_dir is the existence of *)
(* the working directory of a generate_video run.                          *)
(*                                                                         *)
(* Progress is a float in the code; here it is a fixed-point integer with  *)
(* ProgressScale = 1.0, divisions rounded down (rounding is monotone, so   *)
(* the order of two progress values is kept).                              *)
(***************************************************************************)
EXTENDS Integers, Sequences, FiniteSets, TLC

\* ---------------------------------------------------------------- bounds
MaxScenes == 2
\* JobQueue(max_workers): worker tasks created by one start()
max_workers == 1
\* calls of JobQueue.start that are followed
MaxStarts == 2
\* calls of JobQueue.add_job that are followed
MaxQueueJobs == 3
\* priority classes offered to the JobQueue
MaxPriority == 2
\* accepted submissions that are followed
MaxSubmissions == 11
\* the clock stops here
MaxClock == 2
\* clock ticks in one hour
TicksPerHour == 2
\* JobService(job_ttl): time-to-live of a key written with setex / expire, in
\* clock ticks
job_ttl == 2
\* largest max_retries passed to create_job
MaxRetriesArg == 3
\* subscribe / unsubscribe events of one sid that are followed
MaxCalls == 3
\* generate_video_async messages that are followed in the broker
MaxMessages == 2
\* jobs whose order in the status indexes is followed
MaxIndexJobs == 2
\* calls of generate_video on the one VideoGenerationService that are followed
MaxAttempts == 2

\* ------------------------------------------------------------- constants
ProgressScale == 10000
\* max_retries of the task generate_video_async
CeleryMaxRetries == 3
\* default max_retries of JobService.create_job (create_video_job passes none)
DefaultMaxRetries == 3
\* VideoProcessor.MAX_VIDEOS_PER_HOUR
MAX_VIDEOS_PER_HOUR == 10
\* default priority of JobService.create_job and of CreateJobRequest
DefaultPriority == 5
\* VideoJob.priority: Field(ge=1, le=10)
PriorityMin == 1
PriorityMax == 10

\* user_id and script_id values of requests
UserIds == {"u1", "u2"}
ScriptIds == {"s1", "s2"}

JobIds == {1}
\* redis GET of a missing key (get_job returns None)
NoJob == [missing |-> TRUE]

PENDING == "pending"
STARTED == "started"
PROCESSING == "processing"
SUCCESS == "success"
FAILURE == "failure"
CANCELLED == "cancelled"
JobStatus == {PENDING, STARTED, PROCESSING, SUCCESS, FAILURE, CANCELLED}

VARIABLES
    store,        \* job:{id} -> stored VideoJob record, or NoJob
    statusIndex,  \* jobs:status:{state} -> set of job ids
    userIndex,    \* user:{user}:jobs -> set of job ids
    created,      \* job ids handed out so far (uuid4 never repeats)
    pc,           \* per job: position of its generate_video_async message
    plan,         \* per job: progress values generate_video will emit
    emitted,      \* per job: progress values passed to progress_callback in this attempt
    outcome,      \* per job: how the last ended attempt left the task body
    retries,      \* per job: Celery request.retries of its message
    cancelPc,     \* per job: position of a cancel request
    cancelResponse, \* per job: HTTP status of the last answered cancel request (0: none)
    now,          \* datetime.utcnow(), in hours
    cleanupPc,    \* per job: cleanup_old_jobs between its scan of the job and delete_job
    queue,        \* JobQueue.queue: the heap of asyncio.PriorityQueue
    active_jobs,  \* JobQueue.active_jobs (job ids)
    completed_jobs, \* JobQueue.completed_jobs (job ids)
    workers,      \* JobQueue.workers (worker tasks)
    running,      \* JobQueue.running
    workerPc,     \* per worker task: its position in JobQueue.worker
    workerJob,    \* per worker task: the job it has taken (0: none)
    stopWaiting,  \* the worker tasks a pending stop() is gathering
    closed,       \* stop() has been called and start() not since
    history,      \* per offered job, how often it was taken; was a job offered after a take
    user_video_counts, \* VideoProcessor.user_video_counts: per user, timestamps
    jobRecords,   \* job records created by the submission operations: user, created_at
    submitResponse, \* HTTP status of the last submission (0: none)
    expires,      \* redis TTL: when the job:{id}, user:{user}:jobs and
                  \* jobs:status:pending keys expire (NoTime: no TTL or no key)
    work_dir,     \* per job: the working directory of its attempt exists
    rmw,          \* per JobService client: the mutator it is in, and the job it read
    base,         \* the stored job when the first of two concurrent mutators read it
    created_job,  \* the VideoJob returned by the last create_job
    got_job,      \* the VideoJob returned by the last get_job
    room,         \* the sids in the Socket.IO room job_{job_id}
    calls,        \* per sid: the subscribe / unsubscribe events it has sent
    pushPc,       \* position of JobQueue.worker and _process_video_async for the job
    threadPc,     \* executor thread: progress values passed to sync_progress_callback
    ready,        \* the event loop's queue of ready callbacks
    room_events,  \* the events passed to sio.emit for the room, in order
    delivered,    \* the sids that the last of these events was sent to
    video_status, \* status of the job's Video row in the database
    broker,       \* the generate_video_async messages sent by POST /jobs, in order
    zjobs,        \* job:{id} records of the jobs whose index order is followed
    status_zset,  \* jobs:status:{state} as sorted sets: per state, member -> score
    _scene_cache,  \* VideoSceneRenderer._scene_cache: cache key -> list of Scene objects
    scene_objects, \* the Scene objects: object -> its audio_file and duration
    attempt       \* per pipeline attempt: its position and local variables

jobVars == <<store, statusIndex, userIndex, created, pc, plan, emitted, outcome, retries,
             cancelPc, cancelResponse, expires>>
clockVars == <<now, cleanupPc>>
queueVars == <<queue, active_jobs, completed_jobs, workers, running, workerPc, workerJob,
               stopWaiting, closed, history>>
processorVars == <<user_video_counts, jobRecords, submitResponse>>
fileVars == <<work_dir>>
clientVars == <<rmw, base, created_job, got_job>>
pushVars == <<room, calls, pushPc, threadPc, ready, room_events, delivered, video_status>>
brokerVars == <<broker>>
indexVars == <<zjobs, status_zset>>
sceneVars == <<_scene_cache, scene_objects, attempt>>
vars == <<jobVars, clockVars, queueVars, processorVars, fileVars, clientVars, pushVars,
          brokerVars, indexVars, sceneVars>>

\* None in an Optional[datetime] field
NoTime == 0 - 1

\* ------------------------------------------------------- VideoJob (job.py)
\* (estimated_duration is never set and is left out.)
NewJob(user_id, script_id, priority, max_retries) ==
    [user_id |-> user_id, script_id |-> script_id,
     status |-> PENDING, progress |-> 0, progress_message |-> "queued",
     result |-> FALSE, error |-> FALSE, error_traceback |-> FALSE,
     created_at |-> now, started_at |-> NoTime, completed_at |-> NoTime,
     retry_count |-> 0, max_retries |-> max_retries, priority |-> priority]

\* Field(ge=0.0, le=1.0) and validate_progress: checked when a record is built
\* (from_dict), not when a field is assigned.
validate_progress(v) == 0 <= v /\ v <= ProgressScale

update_progress(job, progress, message) ==
    [job EXCEPT !.progress = progress,
                !.progress_message = message,
                !.status = IF job.status = PENDING THEN PROCESSING ELSE @]

mark_started(job) ==
    [job EXCEPT !.status = STARTED, !.started_at = now]

mark_success(job) ==
    [job EXCEPT !.status = SUCCESS, !.result = TRUE, !.completed_at = now,
                !.progress = ProgressScale, !.progress_message = "completed"]

mark_failure(job, traceback) ==
    [job EXCEPT !.status = FAILURE, !.error = TRUE, !.error_traceback = traceback,
                !.completed_at = now, !.progress_message = "failed"]

mark_cancelled(job) ==
    [job EXCEPT !.status = CANCELLED, !.completed_at = now,
                !.progress_message = "cancelled"]

\* can_retry without the retry limit (used to test C10).
can_retry_ignores_limit(job) ==
    job.status = FAILURE

can_retry(job) ==
    job.status = FAILURE /\ job.retry_count < job.max_retries

increment_retry(job) ==
    [job EXCEPT !.retry_count = @ + 1, !.status = PENDING,
                !.error = FALSE, !.error_traceback = FALSE,
                !.progress_message = "retrying"]

is_complete(job) == job.status \in {SUCCESS, FAILURE, CANCELLED}

\* JSON null, and the ISO 8601 string of a datetime
null == [null |-> TRUE]
isoformat(t) == [iso |-> t]
fromisoformat(str) == str.iso

\* to_dict: model_dump(mode='json') writes a datetime as its ISO string and
\* None as null; the status is already its string value (use_enum_values).
to_dict(job) ==
    [job EXCEPT !.created_at = isoformat(@),
                !.started_at = IF @ = NoTime THEN null ELSE isoformat(@),
                !.completed_at = IF @ = NoTime THEN null ELSE isoformat(@)]

\* The Field constraints of VideoJob and validate_progress, checked when a
\* VideoJob is built.
VideoJob_valid(data) ==
    /\ validate_progress(data.progress)
    /\ data.retry_count >= 0
    /\ data.max_retries >= 0
    /\ PriorityMin <= data.priority /\ data.priority <= PriorityMax

\* from_dict: the ISO strings become datetimes again, null stays None; cls(**data)
\* validates (see get_job_raises).
from_dict(data) ==
    [data EXCEPT !.created_at = IF @ # null THEN fromisoformat(@) ELSE NoTime,
                 !.started_at = IF @ # null THEN fromisoformat(@) ELSE NoTime,
                 !.completed_at = IF @ # null THEN fromisoformat(@) ELSE NoTime]

\* ------------------------------------------------ JobService (job_service.py)
\* get_job: None when the key is missing; VideoJob.from_dict re-validates the
\* record, so a stored progress outside [0,1] makes get_job raise
\* (a pydantic ValidationError, which get_job does not catch).
get_job_raises(j) == store[j] # NoJob /\ ~VideoJob_valid(store[j])

\* get_job on a key that is present and valid: json.loads and from_dict.
get_job(j) == from_dict(store[j])

\* update_job: setex of json.dumps(job.to_dict()) (which restarts the record's
\* TTL), then zadd to the index of job.status.
update_job(j, job) ==
    /\ store' = [store EXCEPT ![j] = to_dict(job)]
    /\ statusIndex' = [statusIndex EXCEPT ![job.status] = @ \cup {j}]
    /\ expires' = [expires EXCEPT !.job[j] = now + job_ttl]

\* The mutators update_progress / mark_*: get_job, return None when the job is
\* missing, else change the job object and update_job. Callers handle
\* get_job_raises.
JobService_update_progress(j, progress, message) ==
    IF store[j] = NoJob THEN UNCHANGED <<store, statusIndex, expires>>
    ELSE update_job(j, update_progress(get_job(j), progress, message))

JobService_mark_started(j) ==
    IF store[j] = NoJob THEN UNCHANGED <<store, statusIndex, expires>>
    ELSE update_job(j, mark_started(get_job(j)))

JobService_mark_success(j) ==
    IF store[j] = NoJob THEN UNCHANGED <<store, statusIndex, expires>>
    ELSE update_job(j, mark_success(get_job(j)))

JobService_mark_failure(j, traceback) ==
    IF store[j] = NoJob THEN UNCHANGED <<store, statusIndex, expires>>
    ELSE update_job(j, mark_failure(get_job(j), traceback))

JobService_mark_cancelled(j) ==
    IF store[j] = NoJob THEN UNCHANGED <<store, statusIndex, expires>>
    ELSE update_job(j, mark_cancelled(get_job(j)))

\* ------------------------- generate_video progress (video_generation_service.py)
\* _generate_audio_for_scenes: 0.30 + 0.30 * (i + 1) / total_scenes, i = 0..n-1
scene_progress(i, n) == 3000 + (3000 * i) \div n

\* FFmpegCompositor.compose_video: one segment reports 1.0 (compose_segment);
\* otherwise (i + 1) / (len + 1) per segment, then 1.0.
compose_video_progress(n) ==
    IF n = 1 THEN <<ProgressScale>>
    ELSE [i \in 1..n |-> (i * ProgressScale) \div (n + 1)] \o <<ProgressScale>>

\* _compose_final_video.compositor_progress: 0.80 + progress * 0.15
compositor_progress(progress) == 8000 + (progress * 1500) \div ProgressScale

\* The values generate_video passes to the callback on a run without error.
generate_video_progress(n, enable_subtitles) ==
    <<500, 1000, 3000>>
    \o [i \in 1..n |-> scene_progress(i, n)]
    \o <<6000, 7500>>
    \o [i \in 1..Len(compose_video_progress(n)) |->
            compositor_progress(compose_video_progress(n)[i])]
    \o (IF enable_subtitles THEN <<8500>> ELSE <<>>)
    \o <<9500, ProgressScale>>

\* generate_video's except branch: progress -1
ErrorProgress == 0 - 1

\* ---------------------------------------------------------------- Init
JobInit ==
    /\ store = [j \in JobIds |-> NoJob]
    /\ statusIndex = [s \in JobStatus |-> {}]
    /\ userIndex = [u \in UserIds |-> {}]
    /\ created = {}
    /\ pc = [j \in JobIds |-> "none"]
    /\ plan = [j \in JobIds |-> <<>>]
    /\ emitted = [j \in JobIds |-> <<>>]
    /\ outcome = [j \in JobIds |-> "none"]
    /\ retries = [j \in JobIds |-> 0]
    /\ cancelPc = [j \in JobIds |-> "idle"]
    /\ cancelResponse = [j \in JobIds |-> 0]
    /\ expires = [job |-> [j \in JobIds |-> NoTime],
                  user_jobs |-> [u \in UserIds |-> NoTime],
                  pending_jobs |-> NoTime]

FileInit ==
    work_dir = [j \in JobIds |-> FALSE]

ClockInit ==
    /\ now = 0
    /\ cleanupPc = [j \in JobIds |-> [deleting |-> FALSE, cutoff_time |-> 0]]

\* create_job without the entry in the user's index (used to test C23).
create_job_skips_user_index(j, user_id, script_id, priority, max_retries) ==
    /\ store' = [store EXCEPT
                    ![j] = to_dict(NewJob(user_id, script_id, priority, max_retries))]
    /\ statusIndex' = [statusIndex EXCEPT ![PENDING] = @ \cup {j}]
    /\ expires' = [job |-> [expires.job EXCEPT ![j] = now + job_ttl],
                   user_jobs |-> expires.user_jobs,
                   pending_jobs |-> now + job_ttl]
    /\ created' = created \cup {j}
    /\ UNCHANGED userIndex

\* JobService.create_job (77-141) with valid arguments: a fresh uuid4, the
\* record with its TTL, the entry in the user's index and in the PENDING index,
\* both with a TTL on the whole index key.
create_job(j, user_id, script_id, priority, max_retries) ==
    /\ store' = [store EXCEPT
                    ![j] = to_dict(NewJob(user_id, script_id, priority, max_retries))]
    /\ userIndex' = [userIndex EXCEPT ![user_id] = @ \cup {j}]
    /\ statusIndex' = [statusIndex EXCEPT ![PENDING] = @ \cup {j}]
    /\ expires' = [job |-> [expires.job EXCEPT ![j] = now + job_ttl],
                   user_jobs |-> [expires.user_jobs EXCEPT ![user_id] = now + job_ttl],
                   pending_jobs |-> now + job_ttl]
    /\ created' = created \cup {j}

\* ------------------------------------------------------ submission (jobs.py)
\* create_video_job: JobService.create_job (record, user index, PENDING index)
\* and generate_video_async.apply_async. The request fixes the number of scenes
\* and enable_subtitles, so the progress values are the same for every attempt.
create_video_job(j, n, enable_subtitles) ==
    /\ j \notin created
    /\ create_job(j, "u1", "s1", DefaultPriority, DefaultMaxRetries)
    /\ pc' = [pc EXCEPT ![j] = "queued"]
    /\ plan' = [plan EXCEPT ![j] = generate_video_progress(n, enable_subtitles)]
    /\ UNCHANGED <<emitted, outcome, retries, cancelPc, cancelResponse, clockVars, queueVars, processorVars, fileVars, clientVars, pushVars, brokerVars, indexVars, sceneVars>>

\* ------------------------------------------- generate_video_async (video_tasks.py)
\* Lines 125-131: a worker takes the message, builds the services and calls
\* job_service.mark_started. (If the record cannot be read, mark_started and the
\* mark_failure of the generic handler both raise, and the task fails.)
TaskStart(j) ==
    /\ pc[j] = "queued"
    /\ emitted' = [emitted EXCEPT ![j] = <<>>]
    /\ IF get_job_raises(j)
       THEN /\ pc' = [pc EXCEPT ![j] = "on_failure"]
            /\ outcome' = [outcome EXCEPT ![j] = "failure"]
            /\ UNCHANGED <<store, statusIndex, expires>>
       ELSE /\ JobService_mark_started(j)
            /\ pc' = [pc EXCEPT ![j] = "generate"]
            /\ outcome' = [outcome EXCEPT ![j] = "none"]
    /\ UNCHANGED <<userIndex, created, plan, retries, cancelPc, cancelResponse, clockVars, queueVars, processorVars, fileVars, clientVars, pushVars, brokerVars, indexVars, sceneVars>>

\* Line 128 raises (VideoGenerationService() -> FFmpegCompositor._check_ffmpeg
\* raises RuntimeError when ffmpeg is missing): the generic handler, lines
\* 175-184, calls mark_failure and raises VideoGenerationError.
TaskInitFails(j) ==
    /\ pc[j] = "queued"
    /\ ~get_job_raises(j)
    /\ JobService_mark_failure(j, TRUE)
    /\ emitted' = [emitted EXCEPT ![j] = <<>>]
    /\ pc' = [pc EXCEPT ![j] = "on_failure"]
    /\ outcome' = [outcome EXCEPT ![j] = "failure"]
    /\ UNCHANGED <<userIndex, created, plan, retries, cancelPc, cancelResponse, clockVars, queueVars, processorVars, fileVars, clientVars, pushVars, brokerVars, indexVars, sceneVars>>

\* progress_callback (lines 138-144), called by generate_video through
\* _update_progress with the next value of the run. generate_video makes its
\* working directory before the first call (video_generation_service.py
\* 102-103) and removes it after the last (line 148), before it returns.
progress_callback(j) ==
    /\ pc[j] = "generate"
    /\ Len(emitted[j]) < Len(plan[j])
    /\ ~get_job_raises(j)
    /\ LET progress == plan[j][Len(emitted[j]) + 1] IN
        /\ emitted' = [emitted EXCEPT ![j] = Append(@, progress)]
        /\ JobService_update_progress(j, progress, "progress")
    /\ work_dir' = [work_dir EXCEPT ![j] = Len(emitted'[j]) < Len(plan[j])]
    /\ UNCHANGED <<userIndex, created, pc, plan, outcome, retries, cancelPc, cancelResponse, clockVars, queueVars, processorVars, clientVars, pushVars, brokerVars, indexVars, sceneVars>>

\* generate_video, lines 158-166: any exception inside the run (a stage error
\* before the last emission, or SoftTimeLimitExceeded at any point) is caught,
\* the working directory is removed if it exists (lines 160-162), the callback
\* is called with progress -1 and VideoGenerationError is raised.
generate_video_raises(j) ==
    /\ pc[j] = "generate"
    /\ ~get_job_raises(j)
    /\ work_dir' = [work_dir EXCEPT ![j] = FALSE]
    /\ emitted' = [emitted EXCEPT ![j] = Append(@, ErrorProgress)]
    /\ JobService_update_progress(j, ErrorProgress, "failed")
    /\ pc' = [pc EXCEPT ![j] = "except"]
    /\ UNCHANGED <<userIndex, created, plan, outcome, retries, cancelPc, cancelResponse, clockVars, queueVars, processorVars, clientVars, pushVars, brokerVars, indexVars, sceneVars>>

\* time_limit=1800 (line 100): at the hard time limit Celery kills the worker
\* process that runs the task; no except branch and no handler of the task
\* runs in it, and nothing is written or removed.
TaskTimeLimit(j) ==
    /\ pc[j] = "generate"
    /\ pc' = [pc EXCEPT ![j] = "ended"]
    /\ outcome' = [outcome EXCEPT ![j] = "killed"]
    /\ UNCHANGED <<store, statusIndex, userIndex, expires, created, plan, emitted, retries,
                   cancelPc, cancelResponse>>
    /\ UNCHANGED <<clockVars, queueVars, processorVars, fileVars, clientVars, pushVars, brokerVars, indexVars, sceneVars>>

\* Lines 165-173: the VideoGenerationError handler calls mark_failure and
\* re-raises. When get_job raises inside mark_failure, that exception leaves the
\* handler instead and the record is not written.
TaskExcept(j) ==
    /\ pc[j] = "except"
    /\ IF get_job_raises(j)
       THEN UNCHANGED <<store, statusIndex, expires>>
       ELSE JobService_mark_failure(j, TRUE)
    /\ pc' = [pc EXCEPT ![j] = "on_failure"]
    /\ outcome' = [outcome EXCEPT ![j] = "failure"]
    /\ UNCHANGED <<userIndex, created, plan, emitted, retries, cancelPc, cancelResponse, clockVars, queueVars, processorVars, fileVars, clientVars, pushVars, brokerVars, indexVars, sceneVars>>

\* Lines 156-163: SoftTimeLimitExceeded raised in the task body after
\* generate_video has returned (before mark_success has written); the handler
\* calls mark_failure without a traceback and raises VideoGenerationError.
TaskSoftTimeLimit(j) ==
    /\ pc[j] = "generate"
    /\ Len(emitted[j]) = Len(plan[j])
    /\ ~get_job_raises(j)
    /\ JobService_mark_failure(j, FALSE)
    /\ pc' = [pc EXCEPT ![j] = "on_failure"]
    /\ outcome' = [outcome EXCEPT ![j] = "failure"]
    /\ UNCHANGED <<userIndex, created, plan, emitted, retries, cancelPc, cancelResponse, clockVars, queueVars, processorVars, fileVars, clientVars, pushVars, brokerVars, indexVars, sceneVars>>

\* Lines 148-154: generate_video returned; mark_success; the task returns.
TaskMarkSuccess(j) ==
    /\ pc[j] = "generate"
    /\ Len(emitted[j]) = Len(plan[j])
    /\ ~get_job_raises(j)
    /\ JobService_mark_success(j)
    /\ pc' = [pc EXCEPT ![j] = "ended"]
    /\ outcome' = [outcome EXCEPT ![j] = "success"]
    /\ UNCHANGED <<userIndex, created, plan, emitted, retries, cancelPc, cancelResponse, clockVars, queueVars, processorVars, fileVars, clientVars, pushVars, brokerVars, indexVars, sceneVars>>

\* self.retry(exc=exc, countdown=60) at line 69: Celery sends the message again
\* (with request.retries + 1) unless that exceeds the task's max_retries, and
\* then raises (Retry, or exc), which the handler's except swallows.
\* A retry whose message is never sent (used to test C9).
retry_never_resends(request_retries) == FALSE

retry_resends(request_retries) == request_retries + 1 <= CeleryMaxRetries

\* VideoGenerationTask.on_failure, lines 42-76. An exception of get_job is
\* swallowed by the handler's except.
on_failure(j) ==
    /\ pc[j] = "on_failure"
    /\ IF get_job_raises(j)
       THEN /\ pc' = [pc EXCEPT ![j] = "ended"]
            /\ UNCHANGED <<store, statusIndex, expires, retries>>
       ELSE IF store[j] # NoJob /\ can_retry(get_job(j))
       THEN /\ update_job(j, increment_retry(get_job(j)))
            /\ IF retry_resends(retries[j])
               THEN /\ pc' = [pc EXCEPT ![j] = "queued"]
                    /\ retries' = [retries EXCEPT ![j] = @ + 1]
               ELSE /\ pc' = [pc EXCEPT ![j] = "ended"]
                    /\ UNCHANGED retries
       ELSE /\ JobService_mark_failure(j, TRUE)
            /\ pc' = [pc EXCEPT ![j] = "ended"]
            /\ UNCHANGED retries
    /\ UNCHANGED <<userIndex, created, plan, emitted, outcome, cancelPc, cancelResponse, clockVars, queueVars, processorVars, fileVars, clientVars, pushVars, brokerVars, indexVars, sceneVars>>

\* ------------------------------------------------------------ cancellation
\* cancel_video_job (jobs.py 175-214) up to its answer or to the sending of the
\* cancel_job task: 404 for a missing job, 400 for a complete one, 500 when
\* get_job raises (the error is not a JobServiceError and is not handled).
cancel_video_job(j) ==
    /\ cancelPc[j] = "idle"
    /\ IF get_job_raises(j)
       THEN cancelResponse' = [cancelResponse EXCEPT ![j] = 500] /\ UNCHANGED cancelPc
       ELSE IF store[j] = NoJob
       THEN cancelResponse' = [cancelResponse EXCEPT ![j] = 404] /\ UNCHANGED cancelPc
       ELSE IF is_complete(get_job(j))
       THEN cancelResponse' = [cancelResponse EXCEPT ![j] = 400] /\ UNCHANGED cancelPc
       ELSE cancelPc' = [cancelPc EXCEPT ![j] = "sent"] /\ UNCHANGED cancelResponse
    /\ UNCHANGED <<store, statusIndex, userIndex, expires, created, pc, plan, emitted, outcome, retries>>
    /\ UNCHANGED <<clockVars, queueVars, processorVars, fileVars, clientVars, pushVars, brokerVars, indexVars, sceneVars>>

\* The cancel_job task returns True after mark_cancelled; False when the job is
\* missing or complete, or when get_job raises.
cancel_job_returns(j) ==
    ~(store[j] = NoJob \/ get_job_raises(j) \/ is_complete(get_job(j)))

\* cancel_job (video_tasks.py 248-279) and the rest of cancel_video_job, which
\* waits for the task's result (jobs.py 202-211): 200 when it is True, else 500.
cancel_job(j) ==
    /\ cancelPc[j] = "sent"
    /\ IF cancel_job_returns(j)
       THEN /\ JobService_mark_cancelled(j)
            /\ cancelResponse' = [cancelResponse EXCEPT ![j] = 200]
       ELSE /\ UNCHANGED <<store, statusIndex, expires>>
            /\ cancelResponse' = [cancelResponse EXCEPT ![j] = 500]
    /\ cancelPc' = [cancelPc EXCEPT ![j] = "idle"]
    /\ UNCHANGED <<userIndex, created, pc, plan, emitted, outcome, retries>>
    /\ UNCHANGED <<clockVars, queueVars, processorVars, fileVars, clientVars, pushVars, brokerVars, indexVars, sceneVars>>

\* ------------------------------------------------------------------ cleanup
\* JobService.delete_job (305-335): get_job; then the record, the user index
\* entry and the entry of the index of the status just read are removed.
delete_job(j) ==
    /\ store' = [store EXCEPT ![j] = NoJob]
    /\ userIndex' = [userIndex EXCEPT ![get_job(j).user_id] = @ \ {j}]
    /\ statusIndex' = [statusIndex EXCEPT ![get_job(j).status] = @ \ {j}]
    /\ expires' = [job |-> [expires.job EXCEPT ![j] = NoTime],
                   user_jobs |-> [u \in UserIds |-> IF userIndex'[u] = {} THEN NoTime
                                                    ELSE expires.user_jobs[u]],
                   pending_jobs |-> IF statusIndex'[PENDING] = {} THEN NoTime
                                    ELSE expires.pending_jobs]

\* JobService.cleanup_old_jobs (411-446) on one old job: the raw record has a
\* terminal status and delete_job is called (an exception of its get_job ends
\* the cleanup with nothing removed).
cleanup_old_jobs(j) ==
    /\ store[j] # NoJob
    /\ store[j].status \in {SUCCESS, FAILURE, CANCELLED}
    /\ ~get_job_raises(j)
    /\ delete_job(j)
    /\ UNCHANGED <<created, pc, plan, emitted, outcome, retries, cancelPc, cancelResponse, clockVars, queueVars, processorVars, fileVars, clientVars, pushVars, brokerVars, indexVars, sceneVars>>

\* ------------------------------------------------- JobQueue (job_queue.py)
\* JobPriority: HIGH = 1, NORMAL = 2, LOW = 3 (lower number = higher priority)
JobPriority == 1..MaxPriority
NORMAL == 2

\* Job.__lt__: jobs compare by priority only.
Job_lt(a, b) == a.priority < b.priority

\* asyncio.PriorityQueue keeps its items in a binary heap (heapq), ordered by
\* Job.__lt__. Positions are 1-based here: the parent of pos is pos \div 2.
RECURSIVE _siftdown(_, _, _)
_siftdown(heap, pos, newitem) ==
    IF pos > 1 /\ Job_lt(newitem, heap[pos \div 2])
    THEN _siftdown([heap EXCEPT ![pos] = heap[pos \div 2]], pos \div 2, newitem)
    ELSE [heap EXCEPT ![pos] = newitem]

RECURSIVE _siftup(_, _, _)
_siftup(heap, pos, newitem) ==
    IF 2 * pos <= Len(heap)
    THEN LET childpos == IF 2 * pos + 1 <= Len(heap)
                            /\ ~Job_lt(heap[2 * pos], heap[2 * pos + 1])
                         THEN 2 * pos + 1 ELSE 2 * pos
         IN _siftup([heap EXCEPT ![pos] = heap[childpos]], childpos, newitem)
    ELSE _siftdown(heap, pos, newitem)

\* queue.put(job)
heappush(heap, item) == _siftdown(Append(heap, item), Len(heap) + 1, item)

\* A queue whose get leaves the item in the queue (used to test C12).
heappop_keeps_item(heap) == heap

\* queue.get(): the item returned is heap[1]; this is the heap that remains.
heappop(heap) ==
    IF Len(heap) = 1 THEN <<>>
    ELSE _siftup(SubSeq(heap, 1, Len(heap) - 1), 1, heap[Len(heap)])

\* Worker tasks are numbered in the order start() creates them.
WorkerTasks == 1..(MaxStarts * max_workers)
StartedTasks == {t \in WorkerTasks : workerPc[t] # "none"}
\* The record of an add_job call in the history: job ids count the calls.
Offered == Len(history.takes)
offer ==
    [takes |-> Append(history.takes, 0),
     late_offer |-> history.late_offer \/ \E i \in 1..Offered : history.takes[i] > 0]

QueueInit ==
    /\ queue = <<>>
    /\ active_jobs = {}
    /\ completed_jobs = {}
    /\ workers = {}
    /\ running = FALSE
    /\ workerPc = [t \in WorkerTasks |-> "none"]
    /\ workerJob = [t \in WorkerTasks |-> 0]
    /\ stopWaiting = {}
    /\ closed = FALSE
    /\ history = [takes |-> <<>>, late_offer |-> FALSE]

\* add_job (82-93): a new Job is put in the queue; the k-th call offers job k.
add_job(priority) ==
    /\ Offered < MaxQueueJobs
    /\ queue' = heappush(queue, [job_id |-> Offered + 1, priority |-> priority])
    /\ history' = offer
    /\ UNCHANGED <<active_jobs, completed_jobs, workers, running, workerPc, workerJob,
                   stopWaiting, closed>>
    /\ UNCHANGED <<jobVars, clockVars, processorVars, fileVars, clientVars, pushVars, brokerVars, indexVars, sceneVars>>

\* start (149-162): nothing when already running; else max_workers new worker
\* tasks replace self.workers.
start ==
    /\ ~running
    /\ Cardinality(StartedTasks) + max_workers <= Cardinality(WorkerTasks)
    /\ LET new == {t \in WorkerTasks : /\ t > Cardinality(StartedTasks)
                                      /\ t <= Cardinality(StartedTasks) + max_workers} IN
        /\ workers' = new
        /\ workerPc' = [t \in WorkerTasks |-> IF t \in new THEN "loop" ELSE workerPc[t]]
    /\ running' = TRUE
    /\ closed' = FALSE
    /\ UNCHANGED <<queue, active_jobs, completed_jobs, workerJob, stopWaiting, history>>
    /\ UNCHANGED <<jobVars, clockVars, processorVars, fileVars, clientVars, pushVars, brokerVars, indexVars, sceneVars>>

\* stop (164-173) up to its await: running is cleared and the worker tasks are
\* gathered. (One stop at a time is followed.)
stop ==
    /\ running
    /\ stopWaiting = {}
    /\ running' = FALSE
    /\ stopWaiting' = workers
    /\ closed' = TRUE
    /\ UNCHANGED <<queue, active_jobs, completed_jobs, workers, workerPc, workerJob, history>>
    /\ UNCHANGED <<jobVars, clockVars, processorVars, fileVars, clientVars, pushVars, brokerVars, indexVars, sceneVars>>

\* stop (173-176): all gathered workers have returned; self.workers = [].
stop_returns ==
    /\ stopWaiting # {}
    /\ \A t \in stopWaiting : workerPc[t] = "done"
    /\ workers' = {}
    /\ stopWaiting' = {}
    /\ UNCHANGED <<queue, active_jobs, completed_jobs, running, workerPc, workerJob,
                   closed, history>>
    /\ UNCHANGED <<jobVars, clockVars, processorVars, fileVars, clientVars, pushVars, brokerVars, indexVars, sceneVars>>

\* worker, line 99: while self.running; then it waits in queue.get (103-106).
worker_loop(t) ==
    /\ workerPc[t] = "loop"
    /\ workerPc' = [workerPc EXCEPT ![t] = IF running THEN "get" ELSE "done"]
    /\ UNCHANGED <<queue, active_jobs, completed_jobs, workers, running, workerJob,
                   stopWaiting, closed, history>>
    /\ UNCHANGED <<jobVars, clockVars, processorVars, fileVars, clientVars, pushVars, brokerVars, indexVars, sceneVars>>

\* worker, lines 107-108: the wait timed out on an empty queue.
worker_timeout(t) ==
    /\ workerPc[t] = "get"
    /\ queue = <<>>
    /\ workerPc' = [workerPc EXCEPT ![t] = "loop"]
    /\ UNCHANGED <<queue, active_jobs, completed_jobs, workers, running, workerJob,
                   stopWaiting, closed, history>>
    /\ UNCHANGED <<jobVars, clockVars, processorVars, fileVars, clientVars, pushVars, brokerVars, indexVars, sceneVars>>

\* worker, lines 103-124: queue.get returned a job; it is put in active_jobs and
\* its task_func is started.
worker_take(t) ==
    /\ workerPc[t] = "get"
    /\ queue # <<>>
    /\ queue' = heappop(queue)
    /\ active_jobs' = active_jobs \cup {queue[1].job_id}
    /\ workerJob' = [workerJob EXCEPT ![t] = queue[1].job_id]
    /\ workerPc' = [workerPc EXCEPT ![t] = "run"]
    /\ history' = [history EXCEPT !.takes[queue[1].job_id] = @ + 1]
    /\ UNCHANGED <<completed_jobs, workers, running, stopWaiting, closed>>
    /\ UNCHANGED <<jobVars, clockVars, processorVars, fileVars, clientVars, pushVars, brokerVars, indexVars, sceneVars>>

\* worker, lines 125-142: task_func returned or raised; finally the job moves
\* from active_jobs to completed_jobs.
worker_finish(t) ==
    /\ workerPc[t] = "run"
    /\ active_jobs' = active_jobs \ {workerJob[t]}
    /\ completed_jobs' = completed_jobs \cup {workerJob[t]}
    /\ workerJob' = [workerJob EXCEPT ![t] = 0]
    /\ workerPc' = [workerPc EXCEPT ![t] = "loop"]
    /\ UNCHANGED <<queue, workers, running, stopWaiting, closed, history>>
    /\ UNCHANGED <<jobVars, clockVars, processorVars, fileVars, clientVars, pushVars, brokerVars, indexVars, sceneVars>>

\* The process dies and is started again. Everything in memory is lost: the
\* queue, active_jobs, completed_jobs and the worker tasks. startup_event
\* (main.py 53-75) calls init_db, initialize_job_queue (job_queue.py 237-240: a
\* new JobQueue and start()) and get_socket_manager, and nothing else; what
\* the job store holds (history) is as before.
restart ==
    /\ Cardinality(StartedTasks) + max_workers <= Cardinality(WorkerTasks)
    /\ LET new == {t \in WorkerTasks : /\ t > Cardinality(StartedTasks)
                                      /\ t <= Cardinality(StartedTasks) + max_workers} IN
        /\ workers' = new
        /\ workerPc' = [t \in WorkerTasks |-> IF t \in new THEN "loop"
                                              ELSE IF workerPc[t] = "none" THEN "none"
                                              ELSE "done"]
    /\ queue' = <<>>
    /\ active_jobs' = {}
    /\ completed_jobs' = {}
    /\ workerJob' = [t \in WorkerTasks |-> 0]
    /\ running' = TRUE
    /\ stopWaiting' = {}
    /\ closed' = FALSE
    /\ UNCHANGED history
    /\ UNCHANGED <<jobVars, clockVars, processorVars, fileVars, clientVars, pushVars, brokerVars, indexVars, sceneVars>>

QueueNext ==
    \/ \E priority \in JobPriority : add_job(priority)
    \/ start
    \/ restart
    \/ stop
    \/ stop_returns
    \/ \E t \in WorkerTasks : worker_loop(t)
    \/ \E t \in WorkerTasks : worker_timeout(t)
    \/ \E t \in WorkerTasks : worker_take(t)
    \/ \E t \in WorkerTasks : worker_finish(t)

\* ------------------------------------------- submission (video_processor.py)
Users == {"u1"}

\* The requests that are followed: script_content, platform and aspect_ratio
\* each valid or not, and (for POST /jobs) a priority inside or outside 1..10.
Requests ==
    [script_content : {"", " ", "Hello."}, platform : {"tiktok", "myspace"},
     aspect_ratio : {"16:9", "2:1"}]
Priorities == {0, 5}

\* str.strip() on the scripts that are followed
strip(script_content) == IF script_content = " " THEN "" ELSE script_content

\* VideoRequest (video.py 15-52): script_content has min_length=1 and
\* aspect_ratio is validated; FastAPI answers 422 before the handler runs.
VideoRequest_valid(request) ==
    /\ request.script_content # ""
    /\ request.aspect_ratio \in {"16:9", "9:16", "1:1", "4:5"}

\* CreateJobRequest (jobs.py 37-40): priority has ge=1, le=10.
CreateJobRequest_valid(request, priority) ==
    VideoRequest_valid(request) /\ 1 <= priority /\ priority <= 10

\* _validate_request (281-287): False stands for the ValueError.
_validate_request(request) ==
    /\ strip(request.script_content) # ""
    /\ request.platform \in {"tiktok", "youtube", "youtube_shorts", "instagram_reels",
                             "instagram_stories", "facebook"}

\* A check that also records the submission (used to test C16).
recent_timestamps_and_this(timestamps) ==
    LET Recent(ts) == ts > now - TicksPerHour IN Append(SelectSeq(timestamps, Recent), now)

\* _check_rate_limit (393-401): the timestamps kept for the user.
recent_timestamps(timestamps) ==
    LET Recent(ts) == ts > now - TicksPerHour IN SelectSeq(timestamps, Recent)

\* _check_rate_limit (403-405): True stands for the exception.
rate_limit_exceeded(timestamps) == Len(timestamps) >= MAX_VIDEOS_PER_HOUR

ProcessorInit ==
    /\ user_video_counts = [u \in Users |-> <<>>]
    /\ jobRecords = <<>>
    /\ submitResponse = 0

\* POST /videos/generate (videos.py 26-52) with VideoProcessor.create_video_job
\* (91-156): validation, rate limit, the record, the timestamp, the enqueueing.
VideoProcessor_create_video_job(u, request) ==
    /\ Len(jobRecords) < MaxSubmissions
    /\ IF ~VideoRequest_valid(request)
       THEN /\ submitResponse' = 422
            /\ UNCHANGED <<user_video_counts, jobRecords, queue, history>>
       ELSE IF ~_validate_request(request)
       THEN /\ submitResponse' = 400
            /\ UNCHANGED <<user_video_counts, jobRecords, queue, history>>
       ELSE IF rate_limit_exceeded(recent_timestamps(user_video_counts[u]))
       THEN /\ submitResponse' = 429
            /\ user_video_counts' = [user_video_counts EXCEPT ![u] = recent_timestamps(@)]
            /\ UNCHANGED <<jobRecords, queue, history>>
       ELSE /\ submitResponse' = 201
            /\ jobRecords' = Append(jobRecords, [user |-> u, created_at |-> now])
            /\ user_video_counts' =
                   [user_video_counts EXCEPT ![u] = Append(recent_timestamps(@), now)]
            /\ queue' = heappush(queue, [job_id |-> Offered + 1, priority |-> NORMAL])
            /\ history' = offer
    /\ UNCHANGED <<active_jobs, completed_jobs, workers, running, workerPc, workerJob,
                   stopWaiting, closed>>
    /\ UNCHANGED <<jobVars, clockVars, fileVars, clientVars, pushVars, brokerVars, indexVars, sceneVars>>

\* get_queue_for_priority (video_tasks.py 283-298)
get_queue_for_priority(priority) ==
    IF priority <= 3 THEN "videos.high"
    ELSE IF priority <= 7 THEN "videos.default"
    ELSE "videos.low"

\* celery_app.conf.task_routes (celery_app.py 116-120): the route of
\* app.tasks.video_tasks.generate_video_async
task_routes == [queue |-> "videos.default", routing_key |-> "videos.default"]

\* generate_video_async.apply_async(kwargs=..., priority=priority), jobs.py
\* 106-112: no queue or routing_key is passed, so the message goes to the queue
\* of the task's route, with the priority as a property of the message.
apply_async(priority) == [queue |-> task_routes.queue, priority |-> priority]

\* POST /jobs (jobs.py 76-127) as a submission of a user: JobService.create_job
\* stores a record for the user and the Celery task is sent. The handler makes
\* no call of _validate_request or _check_rate_limit.
jobs_create_video_job(u, request, priority) ==
    /\ Len(jobRecords) < MaxSubmissions
    /\ IF ~CreateJobRequest_valid(request, priority)
       THEN submitResponse' = 422 /\ UNCHANGED <<jobRecords, broker>>
       ELSE /\ submitResponse' = 202
            /\ jobRecords' = Append(jobRecords, [user |-> u, created_at |-> now])
            /\ broker' = Append(broker, apply_async(priority))
    /\ UNCHANGED <<user_video_counts, jobVars, clockVars, queueVars, fileVars, clientVars, pushVars, indexVars, sceneVars>>

\* A redis key whose TTL has run out at the given time is gone.
expired(expire_time, time) == expire_time # NoTime /\ expire_time <= time

\* Time passes; redis drops the keys whose TTL runs out.
Tick ==
    /\ now < MaxClock
    /\ now' = now + 1
    /\ store' = [j \in JobIds |-> IF expired(expires.job[j], now') THEN NoJob ELSE store[j]]
    /\ userIndex' = [u \in UserIds |-> IF expired(expires.user_jobs[u], now') THEN {}
                                        ELSE userIndex[u]]
    /\ statusIndex' = [statusIndex EXCEPT
                          ![PENDING] = IF expired(expires.pending_jobs, now') THEN {} ELSE @]
    /\ expires' = [job |-> [j \in JobIds |-> IF expired(expires.job[j], now') THEN NoTime
                                               ELSE expires.job[j]],
                   user_jobs |-> [u \in UserIds |->
                                    IF expired(expires.user_jobs[u], now') THEN NoTime
                                    ELSE expires.user_jobs[u]],
                   pending_jobs |-> IF expired(expires.pending_jobs, now') THEN NoTime
                                    ELSE expires.pending_jobs]
    /\ UNCHANGED <<created, pc, plan, emitted, outcome, retries, cancelPc, cancelResponse>>
    /\ UNCHANGED <<cleanupPc, queueVars, processorVars, fileVars, clientVars, pushVars, brokerVars, indexVars, sceneVars>>

SubmitNext ==
    \/ \E u \in Users, request \in Requests : VideoProcessor_create_video_job(u, request)
    \/ \E u \in Users, request \in Requests, priority \in Priorities :
          jobs_create_video_job(u, request, priority)
    \/ Tick

\* ------------------------------------ JobService called by any caller
\* The methods of JobService on a stored, readable job, in any order and at
\* any time, as the service offers them to its callers.
call_create_job(j) ==
    /\ j \notin created
    /\ create_job(j, "u1", "s1", DefaultPriority, DefaultMaxRetries)
    /\ UNCHANGED <<pc, plan, emitted, outcome, retries, cancelPc, cancelResponse>>
    /\ UNCHANGED <<clockVars, queueVars, processorVars, fileVars, clientVars, pushVars, brokerVars, indexVars, sceneVars>>

call_update_progress(j) ==
    /\ store[j] # NoJob
    /\ JobService_update_progress(j, ProgressScale \div 2, "progress")
    /\ UNCHANGED <<userIndex, created, pc, plan, emitted, outcome, retries, cancelPc,
                   cancelResponse, clockVars, queueVars, processorVars, fileVars, clientVars, pushVars, brokerVars, indexVars, sceneVars>>

call_mark_started(j) ==
    /\ store[j] # NoJob
    /\ JobService_mark_started(j)
    /\ UNCHANGED <<userIndex, created, pc, plan, emitted, outcome, retries, cancelPc,
                   cancelResponse, clockVars, queueVars, processorVars, fileVars, clientVars, pushVars, brokerVars, indexVars, sceneVars>>

call_mark_success(j) ==
    /\ store[j] # NoJob
    /\ JobService_mark_success(j)
    /\ UNCHANGED <<userIndex, created, pc, plan, emitted, outcome, retries, cancelPc,
                   cancelResponse, clockVars, queueVars, processorVars, fileVars, clientVars, pushVars, brokerVars, indexVars, sceneVars>>

call_mark_failure(j) ==
    /\ store[j] # NoJob
    /\ JobService_mark_failure(j, TRUE)
    /\ UNCHANGED <<userIndex, created, pc, plan, emitted, outcome, retries, cancelPc,
                   cancelResponse, clockVars, queueVars, processorVars, fileVars, clientVars, pushVars, brokerVars, indexVars, sceneVars>>

call_mark_cancelled(j) ==
    /\ store[j] # NoJob
    /\ JobService_mark_cancelled(j)
    /\ UNCHANGED <<userIndex, created, pc, plan, emitted, outcome, retries, cancelPc,
                   cancelResponse, clockVars, queueVars, processorVars, fileVars, clientVars, pushVars, brokerVars, indexVars, sceneVars>>

\* The retry branch of on_failure (video_tasks.py 63-66): get_job, can_retry,
\* increment_retry, update_job.
call_retry(j) ==
    /\ store[j] # NoJob
    /\ can_retry(get_job(j))
    /\ update_job(j, increment_retry(get_job(j)))
    /\ UNCHANGED <<userIndex, created, pc, plan, emitted, outcome, retries, cancelPc,
                   cancelResponse, clockVars, queueVars, processorVars, fileVars, clientVars, pushVars, brokerVars, indexVars, sceneVars>>

\* cleanup_old_jobs(age_hours), lines 422-439, for one key of the scan: the raw
\* record is read, and when its status is terminal and created_at is before
\* the cutoff, delete_job is about to be called.
cleanup_scan(j, age_hours) ==
    /\ ~cleanupPc[j].deleting
    /\ store[j] # NoJob
    /\ LET cutoff_time == now - age_hours * TicksPerHour IN
        /\ store[j].status \in {SUCCESS, FAILURE, CANCELLED}
        /\ fromisoformat(store[j].created_at) < cutoff_time
        /\ cleanupPc' = [cleanupPc EXCEPT ![j] = [deleting |-> TRUE,
                                                 cutoff_time |-> cutoff_time]]
    /\ UNCHANGED <<now, jobVars, queueVars, processorVars, fileVars, clientVars, pushVars, brokerVars, indexVars, sceneVars>>

\* cleanup_old_jobs, line 440: delete_job(job_id) reads the job again and
\* removes it (False when it is gone).
cleanup_delete(j) ==
    /\ cleanupPc[j].deleting
    /\ IF store[j] = NoJob
       THEN UNCHANGED <<store, userIndex, statusIndex, expires>>
       ELSE delete_job(j)
    /\ cleanupPc' = [cleanupPc EXCEPT ![j] = [deleting |-> FALSE, cutoff_time |-> 0]]
    /\ UNCHANGED <<created, pc, plan, emitted, outcome, retries, cancelPc, cancelResponse>>
    /\ UNCHANGED <<now, queueVars, processorVars, fileVars, clientVars, pushVars, brokerVars, indexVars, sceneVars>>

ServiceNext ==
    \/ \E j \in JobIds : call_create_job(j)
    \/ \E j \in JobIds : call_update_progress(j)
    \/ \E j \in JobIds : call_mark_started(j)
    \/ \E j \in JobIds : call_mark_success(j)
    \/ \E j \in JobIds : call_mark_failure(j)
    \/ \E j \in JobIds : call_mark_cancelled(j)
    \/ \E j \in JobIds : call_retry(j)
    \/ \E j \in JobIds, age_hours \in 0..1 : cleanup_scan(j, age_hours)
    \/ \E j \in JobIds : cleanup_delete(j)
    \/ Tick

\* ------------------------------------- concurrent JobService clients
\* Two callers of JobService for the same job: the Celery worker and the API.
Clients == {"worker", "api"}

\* no call made yet
NotCalled == [not_called |-> TRUE]

ClientInit ==
    /\ rmw = [c \in Clients |-> [pc |-> "idle", op |-> "none", job |-> NoJob]]
    /\ base = NoJob
    /\ created_job = NotCalled
    /\ got_job = NotCalled

\* The mutators of JobService (196-303). Each is: job = get_job(job_id); return
\* None if there is none; change the job object; update_job(job).
Mutators == {"update_progress", "mark_started", "mark_success", "mark_failure",
             "mark_cancelled"}

apply_mutator(op, job) ==
    CASE op = "update_progress" -> update_progress(job, ProgressScale \div 2, "progress")
      [] op = "mark_started" -> mark_started(job)
      [] op = "mark_success" -> mark_success(job)
      [] op = "mark_failure" -> mark_failure(job, TRUE)
      [] op = "mark_cancelled" -> mark_cancelled(job)

\* Before the two clients call: the job is created and a worker marks it
\* started.
mutator_setup(j) ==
    /\ \A c \in Clients : rmw[c].pc = "idle"
    /\ call_create_job(j) \/ call_mark_started(j)

\* A client calls a mutator, which reads the job with get_job.
mutator_get_job(c, j, op) ==
    /\ rmw[c].pc = "idle"
    /\ store[j] # NoJob
    /\ ~get_job_raises(j)
    /\ rmw' = [rmw EXCEPT ![c] = [pc |-> "read", op |-> op, job |-> get_job(j)]]
    /\ base' = IF \A d \in Clients : rmw[d].pc = "idle" THEN store[j] ELSE base
    /\ UNCHANGED <<created_job, got_job>>
    /\ UNCHANGED <<jobVars, clockVars, queueVars, processorVars, fileVars, pushVars, brokerVars, indexVars, sceneVars>>

\* The mutator changes the job object it has read and writes it with update_job.
mutator_update_job(c, j) ==
    /\ rmw[c].pc = "read"
    /\ update_job(j, apply_mutator(rmw[c].op, rmw[c].job))
    /\ rmw' = [rmw EXCEPT ![c].pc = "done"]
    /\ UNCHANGED <<base, created_job, got_job>>
    /\ UNCHANGED <<userIndex, created, pc, plan, emitted, outcome, retries, cancelPc,
                   cancelResponse>>
    /\ UNCHANGED <<clockVars, queueVars, processorVars, fileVars, pushVars, brokerVars, indexVars, sceneVars>>

RaceNext ==
    \/ \E j \in JobIds : mutator_setup(j)
    \/ \E c \in Clients, j \in JobIds, op \in Mutators : mutator_get_job(c, j, op)
    \/ \E c \in Clients, j \in JobIds : mutator_update_job(c, j)

\* ------------------------------------------- create_job and get_job
\* priority and max_retries arguments, valid ones and their neighbours
PriorityArgs == (PriorityMin - 1)..(PriorityMax + 1)
MaxRetriesArgs == (0 - 1)..MaxRetriesArg

\* A call of create_job (77-141): VideoJob(...) raises a ValidationError for
\* arguments outside the Field constraints, before anything is written;
\* otherwise the job is stored and returned.
call_create_job_with(j, user_id, script_id, priority, max_retries) ==
    /\ j \notin created
    /\ LET job == NewJob(user_id, script_id, priority, max_retries) IN
        IF VideoJob_valid(job)
        THEN /\ create_job(j, user_id, script_id, priority, max_retries)
             /\ created_job' = [user_id |-> user_id, script_id |-> script_id,
                                priority |-> priority, max_retries |-> max_retries,
                                job_id |-> j, job |-> job]
        ELSE /\ UNCHANGED <<store, userIndex, statusIndex, expires, created>>
             /\ created_job' = NotCalled
    /\ got_job' = NotCalled
    /\ UNCHANGED <<pc, plan, emitted, outcome, retries, cancelPc, cancelResponse>>
    /\ UNCHANGED <<rmw, base, clockVars, queueVars, processorVars, fileVars, pushVars, brokerVars, indexVars, sceneVars>>

\* A call of get_job (143-164): None for a missing key.
call_get_job(j) ==
    /\ ~get_job_raises(j)
    /\ got_job' = IF store[j] = NoJob THEN NoJob ELSE get_job(j)
    /\ UNCHANGED <<rmw, base, created_job>>
    /\ UNCHANGED <<jobVars, clockVars, queueVars, processorVars, fileVars, pushVars, brokerVars, indexVars, sceneVars>>

CreateNext ==
    \/ \E j \in JobIds, user_id \in UserIds, script_id \in ScriptIds,
          priority \in PriorityArgs, max_retries \in MaxRetriesArgs :
          call_create_job_with(j, user_id, script_id, priority, max_retries)
    \/ \E j \in JobIds : call_get_job(j)

\* ------------------------------------------- push events (manager.py)
\* Socket.IO session ids of connected clients
Sids == {"sid1", "sid2"}

PushInit ==
    /\ room = {}
    /\ calls = [sid \in Sids |-> <<>>]
    /\ pushPc = "none"
    /\ threadPc = 0
    /\ ready = <<>>
    /\ room_events = <<>>
    /\ delivered = {}
    /\ video_status = "pending"

\* subscribe_to_job (49-72) with a job_id: sio.enter_room, whose rooms hold each
\* sid once; then 'subscribed' is sent to the sid alone.
subscribe_to_job(sid) ==
    /\ Len(calls[sid]) < MaxCalls
    /\ room' = room \cup {sid}
    /\ calls' = [calls EXCEPT ![sid] = Append(@, "subscribe")]
    /\ UNCHANGED <<pushPc, threadPc, ready, room_events, delivered, video_status>>
    /\ UNCHANGED <<jobVars, clockVars, queueVars, processorVars, fileVars, clientVars, brokerVars, indexVars, sceneVars>>

\* unsubscribe_from_job (74-88) with a job_id: sio.leave_room.
unsubscribe_from_job(sid) ==
    /\ Len(calls[sid]) < MaxCalls
    /\ room' = room \ {sid}
    /\ calls' = [calls EXCEPT ![sid] = Append(@, "unsubscribe")]
    /\ UNCHANGED <<pushPc, threadPc, ready, room_events, delivered, video_status>>
    /\ UNCHANGED <<jobVars, clockVars, queueVars, processorVars, fileVars, clientVars, brokerVars, indexVars, sceneVars>>

\* emit_to_job (90-101): sio.emit(event, data, room=room) reaches the sids that
\* are in the room now. seq numbers the events of the job in the order in
\* which worker, task and executor thread produce them.
emit_to_job(event, progress, seq) ==
    /\ room_events' = Append(room_events,
                             [event |-> event, progress |-> progress, seq |-> seq])
    /\ delivered' = room

\* async_progress_callback, line 635: int(progress * 100), with progress a
\* fixed-point value (the error value -1 gives -100).
percent(progress) ==
    IF progress < 0 THEN 0 - 100 ELSE progress \div (ProgressScale \div 100)

\* A callback that is put at the front of the loop's queue (used to test C30).
call_soon_first(callbacks, callback) == <<callback>> \o callbacks

\* loop.call_soon / call_soon_threadsafe (under run_coroutine_threadsafe, line
\* 647, and under the future of run_in_executor, line 653): the loop runs its
\* callbacks in the order in which they were registered.
call_soon(callbacks, callback) == Append(callbacks, callback)

\* JobQueue.worker, lines 116-121: a worker has taken the job and emits
\* processing_started. The request fixes the progress values of the run.
worker_emit_started(j, n, enable_subtitles) ==
    /\ pushPc = "none"
    /\ plan' = [plan EXCEPT ![j] = generate_video_progress(n, enable_subtitles)]
    /\ emit_to_job("processing_started", 0, 1)
    /\ pushPc' = "started"
    /\ UNCHANGED <<room, calls, threadPc, ready, video_status>>
    /\ UNCHANGED <<store, statusIndex, userIndex, created, pc, emitted, outcome, retries,
                   cancelPc, cancelResponse, expires>>
    /\ UNCHANGED <<clockVars, queueVars, processorVars, fileVars, clientVars, brokerVars, indexVars, sceneVars>>

\* _process_video_async, lines 609-658: progress_update 0 is emitted, then
\* run_in_executor starts _process_video_with_generation_service in a thread
\* and the coroutine waits for its future. The thread begins with
\* repo.update_status(job_id, PROCESSING) (489-491).
_process_video_async(j) ==
    /\ pushPc = "started"
    /\ emit_to_job("progress_update", 0, 2)
    /\ pushPc' = "executor"
    /\ threadPc' = 0
    /\ video_status' = "processing"
    /\ UNCHANGED <<room, calls, ready>>
    /\ UNCHANGED <<jobVars, clockVars, queueVars, processorVars, fileVars, clientVars, brokerVars, indexVars, sceneVars>>

\* sync_progress_callback (644-650), called in the executor thread by
\* generate_video with its next progress value: run_coroutine_threadsafe
\* registers a callback that will create the task of async_progress_callback.
sync_progress_callback(j) ==
    /\ pushPc = "executor"
    /\ threadPc < Len(plan[j])
    /\ threadPc' = threadPc + 1
    /\ ready' = call_soon(ready, [kind |-> "create_task",
                                  progress |-> plan[j][threadPc + 1], seq |-> threadPc + 3])
    /\ UNCHANGED <<room, calls, pushPc, room_events, delivered, video_status>>
    /\ UNCHANGED <<jobVars, clockVars, queueVars, processorVars, fileVars, clientVars, brokerVars, indexVars, sceneVars>>

\* generate_video raises in the thread (its lines 158-166 call the callback
\* with -1); _process_video_with_generation_service sets the row FAILED and
\* re-raises (540-550), and the future of run_in_executor gets the exception.
executor_raises(j) ==
    /\ pushPc = "executor"
    /\ threadPc < Len(plan[j])
    /\ threadPc' = threadPc + 1
    /\ ready' = call_soon(call_soon(ready, [kind |-> "create_task",
                                            progress |-> ErrorProgress, seq |-> threadPc + 3]),
                          [kind |-> "set_exception", progress |-> 0, seq |-> threadPc + 4])
    /\ pushPc' = "joining"
    /\ video_status' = "failed"
    /\ UNCHANGED <<room, calls, room_events, delivered>>
    /\ UNCHANGED <<jobVars, clockVars, queueVars, processorVars, fileVars, clientVars, brokerVars, indexVars, sceneVars>>

\* generate_video returns in the thread, _process_video_with_generation_service
\* sets the row COMPLETED (523-534) and returns: the future of run_in_executor
\* gets its result.
executor_returns(j) ==
    /\ pushPc = "executor"
    /\ threadPc = Len(plan[j])
    /\ ready' = call_soon(ready, [kind |-> "set_result", progress |-> 0, seq |-> threadPc + 3])
    /\ pushPc' = "joining"
    /\ video_status' = "completed"
    /\ UNCHANGED <<room, calls, threadPc, room_events, delivered>>
    /\ UNCHANGED <<jobVars, clockVars, queueVars, processorVars, fileVars, clientVars, brokerVars, indexVars, sceneVars>>

\* The event loop runs the first callback of its queue.
\*   create_task: the task of async_progress_callback is created and its first
\*                step registered;
\*   step: async_progress_callback (619-638) emits progress_update;
\*   set_result / set_exception: the future is done and the wake-up of
\*                _process_video_async is registered;
\*   wakeup: lines 660-666 emit progress_update 100 and wait for the emit;
\*   resume: lines 668-678 emit processing_completed, and the worker's finally
\*                (job_queue.py 138-142) ends the job;
\*   throw: lines 680-683 emit processing_failed and re-raise;
\*   worker_except: job_queue.py 130-136 emits processing_failed again.
loop_run_once ==
    /\ ready # <<>>
    /\ LET callback == Head(ready) IN
        CASE callback.kind = "create_task" ->
                /\ ready' = call_soon(Tail(ready), [callback EXCEPT !.kind = "step"])
                /\ UNCHANGED <<room_events, delivered, pushPc>>
          [] callback.kind = "step" ->
                /\ emit_to_job("progress_update", percent(callback.progress), callback.seq)
                /\ ready' = Tail(ready)
                /\ UNCHANGED pushPc
          [] callback.kind = "set_result" ->
                /\ ready' = call_soon(Tail(ready), [callback EXCEPT !.kind = "wakeup"])
                /\ UNCHANGED <<room_events, delivered, pushPc>>
          [] callback.kind = "set_exception" ->
                /\ ready' = call_soon(Tail(ready), [callback EXCEPT !.kind = "throw"])
                /\ UNCHANGED <<room_events, delivered, pushPc>>
          [] callback.kind = "wakeup" ->
                /\ emit_to_job("progress_update", 100, callback.seq)
                /\ ready' = call_soon(Tail(ready), [callback EXCEPT !.kind = "resume",
                                                                    !.seq = @ + 1])
                /\ UNCHANGED pushPc
          [] callback.kind = "resume" ->
                /\ emit_to_job("processing_completed", 0, callback.seq)
                /\ ready' = Tail(ready)
                /\ pushPc' = "done"
          [] callback.kind = "throw" ->
                /\ emit_to_job("processing_failed", 0, callback.seq)
                /\ ready' = call_soon(Tail(ready), [callback EXCEPT !.kind = "worker_except",
                                                                    !.seq = @ + 1])
                /\ UNCHANGED pushPc
          [] callback.kind = "worker_except" ->
                /\ emit_to_job("processing_failed", 0, callback.seq)
                /\ ready' = Tail(ready)
                /\ pushPc' = "done"
    /\ UNCHANGED <<room, calls, threadPc, video_status>>
    /\ UNCHANGED <<jobVars, clockVars, queueVars, processorVars, fileVars, clientVars, brokerVars, indexVars, sceneVars>>

\* POST /videos/{video_id}/retry (videos.py 146-173) with
\* VideoProcessor.retry_video_job (215-237) on a FAILED row: the row is set to
\* PENDING with error_message None, and returned. (Any other row: None, 404.)
retry_video_job(j) ==
    /\ video_status = "failed"
    /\ video_status' = "pending"
    /\ UNCHANGED <<room, calls, pushPc, threadPc, ready, room_events, delivered>>
    /\ UNCHANGED <<jobVars, clockVars, queueVars, processorVars, fileVars, clientVars, brokerVars, indexVars, sceneVars>>

RoomNext ==
    \/ \E sid \in Sids : subscribe_to_job(sid)
    \/ \E sid \in Sids : unsubscribe_from_job(sid)
    \/ \E j \in JobIds, n \in 1..MaxScenes, enable_subtitles \in BOOLEAN :
          worker_emit_started(j, n, enable_subtitles)
    \/ \E j \in JobIds : _process_video_async(j)

PushNext ==
    \/ \E j \in JobIds, n \in 1..MaxScenes, enable_subtitles \in BOOLEAN :
          worker_emit_started(j, n, enable_subtitles)
    \/ \E j \in JobIds : _process_video_async(j)
    \/ \E j \in JobIds : sync_progress_callback(j)
    \/ \E j \in JobIds : executor_raises(j)
    \/ \E j \in JobIds : executor_returns(j)
    \/ loop_run_once
    \/ \E j \in JobIds : retry_video_job(j)

\* ------------------------------------------- routing of POST /jobs
\* POST /jobs with a valid video request and any priority, for the first
\* messages of the broker.
RouteNext ==
    \E u \in Users, priority \in PriorityArgs :
        /\ Len(broker) < MaxMessages
        /\ jobs_create_video_job(u, [script_content |-> "Hello.", platform |-> "tiktok",
                                     aspect_ratio |-> "16:9"], priority)

\* --------------------------- the status indexes as sorted sets (job_service.py)
\* Job ids are uuid4 strings: a new job gets any id not yet used, so the order
\* of two ids says nothing about which job is older.
ZJobIds == 1..MaxIndexJobs

\* No job:{id} key and no member of any jobs:status:{state} set.
IndexInit ==
    /\ zjobs = <<>>
    /\ status_zset = [s \in JobStatus |-> <<>>]

\* redis ZADD key {member: score}: the member is added, or its score replaced.
zadd(zset, member, score) == (member :> score) @@ zset

\* redis ZRANGE key first last: the members from rank first to rank last
\* (inclusive, 0-based, a negative last counts from the end), ranked by score
\* and, for equal scores, by member.
zrange(zset, first, last) ==
    LET members == DOMAIN zset
        rank(m) == Cardinality({k \in members : \/ zset[k] < zset[m]
                                                \/ zset[k] = zset[m] /\ k < m})
        ranked == [i \in 1..Cardinality(members) |->
                      CHOOSE m \in members : rank(m) = i - 1]
        end == IF last < 0 THEN Len(ranked) + last + 1
               ELSE IF last + 1 > Len(ranked) THEN Len(ranked) ELSE last + 1
    IN SubSeq(ranked, first + 1, end)

\* create_job (100-136) for the index: the record, and ZADD to
\* jobs:status:pending with score created_at.timestamp(). (The TTLs and the
\* user's index are followed by create_job above.)
index_create_job(j) ==
    /\ j \notin DOMAIN zjobs
    /\ zjobs' = (j :> to_dict(NewJob("u1", "s1", DefaultPriority, DefaultMaxRetries))) @@ zjobs
    /\ status_zset' = [status_zset EXCEPT ![PENDING] = zadd(@, j, now)]
    /\ UNCHANGED <<jobVars, clockVars, queueVars, processorVars, fileVars, clientVars,
                   pushVars, brokerVars, sceneVars>>

\* The calls that change a stored job: the mutators of JobService, and the
\* retry of on_failure (video_tasks.py 63-66).
IndexOps == {"mark_started", "mark_failure", "increment_retry"}

\* A mutator or the retry on job j: get_job, the change of the job object,
\* and update_job (180-191): the record is written and the job is ZADDed to
\* the index of its status with score datetime.utcnow().timestamp().
index_update_job(j, op) ==
    /\ j \in DOMAIN zjobs
    /\ op = "increment_retry" => can_retry(from_dict(zjobs[j]))
    /\ LET job == IF op = "increment_retry" THEN increment_retry(from_dict(zjobs[j]))
                  ELSE apply_mutator(op, from_dict(zjobs[j])) IN
        /\ zjobs' = [zjobs EXCEPT ![j] = to_dict(job)]
        /\ status_zset' = [status_zset EXCEPT ![job.status] = zadd(@, j, now)]
    /\ UNCHANGED <<jobVars, clockVars, queueVars, processorVars, fileVars, clientVars,
                   pushVars, brokerVars, sceneVars>>

\* get_jobs_by_status (376-409): ZRANGE 0 .. limit - 1 of the index, then
\* get_job for each id, skipping the ids whose record is gone.
get_jobs_by_status(status, limit) ==
    LET job_ids == zrange(status_zset[status], 0, limit - 1)
        Found(job_id) == job_id \in DOMAIN zjobs
        found == SelectSeq(job_ids, Found)
    IN [i \in 1..Len(found) |-> from_dict(zjobs[found[i]])]

IndexNext ==
    \/ \E j \in ZJobIds : index_create_job(j)
    \/ \E j \in ZJobIds, op \in IndexOps : index_update_job(j, op)
    \/ Tick

\* ------------------------------------------------------------------- Init
BrokerInit ==
    broker = <<>>

\* ------------- scenes of an attempt (video_generation_service.py, video_scene_renderer.py)
\* Durations are in tenths of a second.
DurationScale == 10
\* SceneRenderConfig.min_scene_duration = 2.0, max_scene_duration = 10.0
min_scene_duration == 20
max_scene_duration == 100
\* script_data["duration"] = request.duration or 30
DefaultDuration == 300
\* the value _get_audio_duration returns when ffprobe fails
FallbackDuration == 50

Attempts == 1..MaxAttempts

\* The requests of the attempts: two scripts and two voices, duration unset.
ScriptContents == {"One. Two.", "One."}
Voices == {"en-US-AriaNeural", "en-US-GuyNeural"}
SceneRequests == [script_content : ScriptContents, voice_id : Voices]

\* _get_cache_key: md5 of f"{content}{duration}", with duration 30 for every
\* request here; md5 is taken as injective on these keys.
_get_cache_key(script) == script.content \o ToString(script.duration \div DurationScale)

\* parse_script: the content split at the sentence ends, one Scene per
\* sentence that is not empty.
parse_script(content) ==
    IF content = "One. Two." THEN <<"One.", "Two.">> ELSE <<"One.">>

clamp(d) ==
    IF d < min_scene_duration THEN min_scene_duration
    ELSE IF d > max_scene_duration THEN max_scene_duration ELSE d

RECURSIVE SumSeq(_)
SumSeq(q) == IF q = <<>> THEN 0 ELSE Head(q) + SumSeq(Tail(q))

\* calculate_scene_timings for scenes of one word each: the target duration
\* in proportion to the word counts, clamped, scaled to the target when the
\* total is more than 0.1 s away from it, and clamped again.
calculate_scene_timings(texts, total_duration) ==
    LET first == [i \in 1..Len(texts) |-> clamp(total_duration \div Len(texts))]
        current_total == SumSeq(first)
        away == IF current_total > total_duration THEN current_total - total_duration
                ELSE total_duration - current_total
    IN IF away > 1
       THEN [i \in 1..Len(texts) |-> clamp((first[i] * total_duration) \div current_total)]
       ELSE first

\* A Scene before it has an audio_file attribute.
NoAudio == [by |-> 0, scene |-> 0, duration |-> 0]

\* VoiceSynthesizer.synthesize writes a new file (uuid4 name) for each call;
\* the length of the speech depends on the text and the voice.
SpeechDuration(text, voice) ==
    IF voice = "en-US-AriaNeural" THEN 20 ELSE 40
synthesize(a, i, text, voice) ==
    [by |-> a, scene |-> i, duration |-> SpeechDuration(text, voice)]

\* The local variables of generate_video when _generate_scenes has returned.
NewAttempt(request, scenes) ==
    [pc |-> "synthesize", request |-> request, scenes |-> scenes, i |-> 1,
     audio_path |-> NoAudio, segments |-> <<>>, subtitle_offsets |-> <<>>]

\* An empty cache, no Scene object, generate_video not yet called.
SceneInit ==
    /\ _scene_cache = <<>>
    /\ scene_objects = <<>>
    /\ attempt = <<>>

Started(a) == a \in DOMAIN attempt

SceneUnchanged ==
    UNCHANGED <<jobVars, clockVars, queueVars, processorVars, fileVars, clientVars,
                pushVars, brokerVars, indexVars>>

\* generate_video up to the end of _generate_scenes (103-106, 184-211) with
\* VideoSceneRenderer.generate_scenes (451-485): the cached list for the key
\* if there is one, else new Scene objects with their estimated durations
\* and images, which are put in the cache.
generate_scenes(a, request) ==
    /\ ~Started(a)
    /\ LET script_data == [content |-> request.script_content, duration |-> DefaultDuration]
           cache_key == _get_cache_key(script_data)
           texts == parse_script(script_data.content)
           timings == calculate_scene_timings(texts, script_data.duration)
           new == [i \in 1..Len(texts) |->
                      [text |-> texts[i], duration |-> timings[i],
                       audio_file |-> NoAudio, image_path |-> "placeholder"]]
           ids == [i \in 1..Len(texts) |-> Len(scene_objects) + i]
       IN IF cache_key \in DOMAIN _scene_cache
          THEN /\ attempt' = (a :> NewAttempt(request, _scene_cache[cache_key])) @@ attempt
               /\ UNCHANGED <<_scene_cache, scene_objects>>
          ELSE /\ scene_objects' = scene_objects \o new
               /\ _scene_cache' = (cache_key :> ids) @@ _scene_cache
               /\ attempt' = (a :> NewAttempt(request, ids)) @@ attempt
    /\ SceneUnchanged

\* _generate_audio_for_scenes, lines 272-280 for scene i: synthesize, and
\* scene.audio_file = audio_path.
set_audio_file(a) ==
    /\ Started(a)
    /\ attempt[a].pc = "synthesize"
    /\ LET o == attempt[a].scenes[attempt[a].i]
           audio_path == synthesize(a, attempt[a].i, scene_objects[o].text,
                                    attempt[a].request.voice_id)
       IN /\ scene_objects' = [scene_objects EXCEPT ![o].audio_file = audio_path]
          /\ attempt' = [attempt EXCEPT ![a].pc = "measure", ![a].audio_path = audio_path]
    /\ UNCHANGED _scene_cache
    /\ SceneUnchanged

\* synthesize raises: VideoGenerationError (302-305), the attempt is over.
synthesize_raises(a) ==
    /\ Started(a)
    /\ attempt[a].pc = "synthesize"
    /\ attempt' = [attempt EXCEPT ![a].pc = "failed"]
    /\ UNCHANGED <<_scene_cache, scene_objects>>
    /\ SceneUnchanged

\* _get_audio_duration (213-242): the duration ffprobe prints, or 5.0 when
\* ffprobe fails, times out or prints no number.
_get_audio_duration(audio_file, ffprobe_ok) ==
    IF ffprobe_ok THEN audio_file.duration ELSE FallbackDuration

\* _generate_audio_for_scenes, lines 283-285 for scene i and the step of the
\* loop: scene.duration = _get_audio_duration(audio_path).
set_duration(a, ffprobe_ok) ==
    /\ Started(a)
    /\ attempt[a].pc = "measure"
    /\ LET o == attempt[a].scenes[attempt[a].i] IN
        scene_objects' = [scene_objects EXCEPT
                             ![o].duration = _get_audio_duration(attempt[a].audio_path,
                                                                 ffprobe_ok)]
    /\ attempt' = [attempt EXCEPT
                      ![a].pc = IF attempt[a].i = Len(attempt[a].scenes)
                                THEN "segments" ELSE "synthesize",
                      ![a].i = attempt[a].i + 1]
    /\ UNCHANGED _scene_cache
    /\ SceneUnchanged

\* _create_video_segments (323-341): one VideoSegment per scene, with the
\* scene's audio_file and duration as they are now.
_create_video_segments(a) ==
    /\ Started(a)
    /\ attempt[a].pc = "segments"
    /\ attempt' = [attempt EXCEPT
                      ![a].pc = "subtitles",
                      ![a].segments =
                          [i \in 1..Len(attempt[a].scenes) |->
                              [audio_file |-> scene_objects[attempt[a].scenes[i]].audio_file,
                               duration |-> scene_objects[attempt[a].scenes[i]].duration]]]
    /\ UNCHANGED <<_scene_cache, scene_objects>>
    /\ SceneUnchanged

\* _add_subtitles_to_video (600-620): the subtitles of scene i are moved by
\* current_time, the sum of scene.duration of the scenes before it.
_add_subtitles_to_video(a) ==
    /\ Started(a)
    /\ attempt[a].pc = "subtitles"
    /\ attempt' = [attempt EXCEPT
                      ![a].pc = "done",
                      ![a].subtitle_offsets =
                          [i \in 1..Len(attempt[a].scenes) |->
                              SumSeq([k \in 1..(i - 1) |->
                                         scene_objects[attempt[a].scenes[k]].duration])]]
    /\ UNCHANGED <<_scene_cache, scene_objects>>
    /\ SceneUnchanged

SceneNext ==
    \/ \E a \in Attempts, request \in SceneRequests : generate_scenes(a, request)
    \/ \E a \in Attempts : set_audio_file(a)
    \/ \E a \in Attempts : synthesize_raises(a)
    \/ \E a \in Attempts, ffprobe_ok \in BOOLEAN : set_duration(a, ffprobe_ok)
    \/ \E a \in Attempts : _create_video_segments(a)
    \/ \E a \in Attempts : _add_subtitles_to_video(a)

Init ==
    /\ JobInit /\ ClockInit /\ QueueInit /\ ProcessorInit /\ FileInit /\ ClientInit
    /\ PushInit /\ BrokerInit /\ IndexInit /\ SceneInit

\* ------------------------------------------------------------------- Next
Next ==
    \/ \E j \in JobIds, n \in 1..MaxScenes, enable_subtitles \in BOOLEAN :
          create_video_job(j, n, enable_subtitles)
    \/ \E j \in JobIds : TaskStart(j)
    \/ \E j \in JobIds : TaskInitFails(j)
    \/ \E j \in JobIds : progress_callback(j)
    \/ \E j \in JobIds : generate_video_raises(j)
    \/ \E j \in JobIds : TaskExcept(j)
    \/ \E j \in JobIds : TaskSoftTimeLimit(j)
    \/ \E j \in JobIds : TaskTimeLimit(j)
    \/ \E j \in JobIds : TaskMarkSuccess(j)
    \/ \E j \in JobIds : on_failure(j)
    \/ \E j \in JobIds : cancel_video_job(j)
    \/ \E j \in JobIds : cancel_job(j)
    \/ \E j \in JobIds : cleanup_old_jobs(j)

Spec == Init /\ [][Next]_vars

\* A running worker takes a message that is waiting in the queue.
FairSpec == Spec /\ \A j \in JobIds : WF_vars(TaskStart(j) \/ TaskInitFails(j))

\* The JobQueue with its workers and callers.
QueueSpec == Init /\ [][QueueNext]_vars

\* The two submission operations and the clock.
SubmitSpec == Init /\ [][SubmitNext]_vars

\* JobService under any sequence of calls, with the clock.
ServiceSpec == Init /\ [][ServiceNext]_vars

\* Two clients calling one mutator each on the same job.
RaceSpec == Init /\ [][RaceNext]_vars

\* create_job with any arguments, and get_job.
CreateSpec == Init /\ [][CreateNext]_vars

\* One job from the worker that has taken it to its last push event.
PushSpec == Init /\ [][PushNext]_vars

\* Clients subscribing to and unsubscribing from the room of a job while its
\* first events are emitted.
RoomSpec == Init /\ [][RoomNext]_vars

\* The routing of the messages that POST /jobs sends.
RouteSpec == Init /\ [][RouteNext]_vars

\* Two jobs in the status indexes, with the clock.
IndexSpec == Init /\ [][IndexNext]_vars

\* The calls of generate_video on one VideoGenerationService, in any
\* interleaving of their steps.
SceneSpec == Init /\ [][SceneNext]_vars

\* ----------------------------------------------------------------- claims
Stored(j) == store[j] # NoJob
Readable(j) == Stored(j) /\ ~get_job_raises(j)
LastEmitted(j) == emitted[j][Len(emitted[j])]

\* C1: every stored job's id is in exactly one jobs:status:{state} index, the
\* one of its stored status.
C1_IndexMatchesStatus ==
    \A j \in JobIds : Stored(j) =>
        \A s \in JobStatus : (j \in statusIndex[s]) <=> (s = store[j].status)

\* The edges of the job state machine.
StateMachineEdge(old, new) ==
    \/ old.status = PENDING /\ new.status = STARTED
    \/ old.status = STARTED /\ new.status = PROCESSING
    \/ old.status = PROCESSING /\ new.status \in {SUCCESS, FAILURE}
    \/ old.status = FAILURE /\ new.status = PENDING /\ old.retry_count < old.max_retries
    \/ old.status \in {PENDING, STARTED, PROCESSING} /\ new.status = CANCELLED

\* C2: every change of a job's stored status is an edge of the job state
\* machine.
C2_StatusChangesAreEdges ==
    [][\A j \in JobIds :
          (Stored(j) /\ store'[j] # NoJob /\ store'[j].status # store[j].status)
              => StateMachineEdge(store[j], store'[j])]_vars

\* C3: once CANCELLED has been written for a job, every later read of the job
\* shows CANCELLED.
C3_CancelledIsFinal ==
    [][\A j \in JobIds :
          (Stored(j) /\ store[j].status = CANCELLED /\ store'[j] # NoJob)
              => store'[j].status = CANCELLED]_vars

\* C4: when generate_video has failed (it reported the error through the
\* callback), the attempt ends with the job marked FAILURE, and after the
\* failure handler the record is readable through get_job and is neither
\* STARTED nor PROCESSING.
C4_FailedAttemptLeavesFailure ==
    \A j \in JobIds :
        (Stored(j) /\ Len(emitted[j]) > 0 /\ LastEmitted(j) = ErrorProgress) =>
            /\ pc[j] = "on_failure" => (Readable(j) /\ store[j].status = FAILURE)
            /\ pc[j] \in {"ended", "queued"} =>
                   (Readable(j) /\ store[j].status \notin {STARTED, PROCESSING})

\* C5: within one attempt the progress values passed to the callback are
\* non-decreasing and lie in [0,1].
C5_ProgressMonotoneInRange ==
    \A j \in JobIds : \A i \in 1..Len(emitted[j]) :
        /\ 0 <= emitted[j][i] /\ emitted[j][i] <= ProgressScale
        /\ i > 1 => emitted[j][i - 1] <= emitted[j][i]

\* C6: when the task body of an attempt has ended, the last progress value
\* emitted in the attempt is 1.0 exactly if the job is in SUCCESS.
C6_LastProgressOneIffSuccess ==
    \A j \in JobIds :
        (Stored(j) /\ outcome[j] # "none" /\ pc[j] \in {"on_failure", "ended"}) =>
            ((Len(emitted[j]) > 0 /\ LastEmitted(j) = ProgressScale)
                <=> store[j].status = SUCCESS)

\* C7: after mark_started, a job that has reported progress is no longer
\* STARTED (the first update_progress moved it to PROCESSING).
C7_ProgressMeansProcessing ==
    \A j \in JobIds :
        (Stored(j) /\ pc[j] = "generate" /\ Len(emitted[j]) > 0)
            => store[j].status # STARTED

\* C8: the retry branch of on_failure leaves the job PENDING, with retry_count
\* increased by one, error and error_traceback cleared and progress 0.
C8_RetryResetsJob ==
    [][\A j \in JobIds :
          (pc[j] = "on_failure" /\ pc'[j] # "on_failure"
             /\ Readable(j) /\ can_retry(store[j]))
          => /\ store'[j].status = PENDING
             /\ store'[j].retry_count = store[j].retry_count + 1
             /\ ~store'[j].error
             /\ ~store'[j].error_traceback
             /\ store'[j].progress = 0]_vars

\* C9: a job that the failure handler has returned to PENDING for a retry is
\* offered to the queue again and is eventually taken by a worker.
C9_RetriedJobIsTakenAgain ==
    \A j \in JobIds :
        (Stored(j) /\ store[j].status = PENDING /\ store[j].retry_count > 0)
            ~> (pc[j] \in {"generate", "on_failure"})

\* A retried job has been taken by a worker again and is generating.
C9_Witness ==
    \E j \in JobIds :
        Stored(j) /\ store[j].retry_count > 0 /\ pc[j] = "generate" /\ Len(emitted[j]) > 0

\* C10: for every job, retry_count <= max_retries.
C10_RetryCountBounded ==
    \A j \in JobIds : Stored(j) => store[j].retry_count <= store[j].max_retries

\* A job has used all its retries, failed again and the failure handler has ended.
C10_Witness ==
    \E j \in JobIds :
        /\ Stored(j) /\ store[j].max_retries > 0
        /\ store[j].retry_count = store[j].max_retries
        /\ store[j].status = FAILURE /\ pc[j] = "ended"

\* C11: when all add_job calls were made before the workers took, the job a
\* worker takes is of the lowest-numbered priority class in the queue and is
\* the first offered of that class (job ids count the add_job calls).
C11_PriorityThenFifo ==
    [][(~history.late_offer /\ Len(queue') < Len(queue)) =>
          \A i \in 2..Len(queue) :
              /\ queue[1].priority <= queue[i].priority
              /\ queue[1].priority = queue[i].priority
                     => queue[1].job_id < queue[i].job_id]_vars

\* C12: every offered job is taken at most once, and no two workers execute
\* the same job at the same time.
C12_TakenAtMostOnce ==
    /\ \A i \in 1..Offered : history.takes[i] <= 1
    /\ \A t, u \in WorkerTasks :
          (workerJob[t] # 0 /\ workerJob[t] = workerJob[u]) => t = u

\* Every offered job has been taken and two workers are executing at once.
C12_Witness ==
    /\ Offered = MaxQueueJobs
    /\ \A i \in 1..Offered : history.takes[i] = 1
    /\ \E t, u \in WorkerTasks : t # u /\ workerPc[t] = "run" /\ workerPc[u] = "run"

\* C13: the number of jobs being executed is at most max_workers.
C13_ActiveAtMostMaxWorkers ==
    Cardinality(active_jobs) <= max_workers

\* C14: after stop, an add_job places no job in the queue.
C14_ClosedQueueRejectsOffers ==
    [][closed => Len(queue') <= Len(queue)]_vars

\* C15: for every user and every one-hour window, at most MAX_VIDEOS_PER_HOUR
\* job records were created for the user in the window.
C15_AtMostTenJobsPerHour ==
    \A u \in Users : \A start_time \in 0..MaxClock :
        LET InWindow(r) == /\ r.user = u
                           /\ start_time <= r.created_at
                           /\ r.created_at < start_time + TicksPerHour
        IN Len(SelectSeq(jobRecords, InWindow)) <= MAX_VIDEOS_PER_HOUR

\* C16: a submission answered 400, 422 or 429 creates no job record, records
\* no rate-limit timestamp and enqueues nothing.
C16_RejectedSubmissionChangesNothing ==
    [][submitResponse' \in {400, 422, 429} =>
          /\ jobRecords' = jobRecords
          /\ queue' = queue
          /\ \A u \in Users :
                /\ Len(user_video_counts'[u]) <= Len(user_video_counts[u])
                /\ \A i \in 1..Len(user_video_counts'[u]) :
                      \E k \in 1..Len(user_video_counts[u]) :
                          user_video_counts[u][k] = user_video_counts'[u][i]]_vars

\* A submission of a user who has used the hour's limit was answered 429.
C16_Witness ==
    /\ submitResponse = 429
    /\ \E u \in Users : Len(user_video_counts[u]) = MAX_VIDEOS_PER_HOUR
    /\ Len(jobRecords) = MAX_VIDEOS_PER_HOUR

\* C17: the cancel operation answers 404, 400 or 200 and nothing else.
C17_CancelAnswers ==
    \A j \in JobIds : cancelResponse[j] \in {0, 200, 400, 404}

\* C18: mark_started on a job that is STARTED or PROCESSING leaves status and
\* started_at as they are.
C18_MarkStartedIdempotent ==
    [][\A j \in JobIds :
          (Stored(j) /\ store[j].status \in {STARTED, PROCESSING} /\ call_mark_started(j))
          => /\ store'[j].status = store[j].status
             /\ store'[j].started_at = store[j].started_at]_vars

\* C19: mark_cancelled on a SUCCESS, FAILURE or CANCELLED job leaves status,
\* completed_at, progress_message and the status indexes as they are.
C19_MarkCancelledNoOpOnTerminal ==
    [][\A j \in JobIds :
          (Stored(j) /\ is_complete(store[j]) /\ call_mark_cancelled(j))
          => /\ store'[j].status = store[j].status
             /\ store'[j].completed_at = store[j].completed_at
             /\ store'[j].progress_message = store[j].progress_message
             /\ statusIndex' = statusIndex]_vars

\* C20: a job that cleanup_old_jobs removes is, when it is removed, in a
\* terminal status and was created before the cutoff.
C20_CleanupRemovesOnlyOldTerminal ==
    [][\A j \in JobIds :
          (cleanup_delete(j) /\ Stored(j) /\ store'[j] = NoJob)
          => /\ is_complete(store[j])
             /\ fromisoformat(store[j].created_at) < cleanupPc[j].cutoff_time]_vars

\* C21: when cleanup_old_jobs has removed an old terminal job, the job's id is
\* in no index: not in the record store, not in its user's index and in no
\* jobs:status:{state} index, whatever statuses the job went through.
C21_EvictedJobInNoIndex ==
    [][\A j \in JobIds :
          (cleanup_delete(j) /\ Stored(j))
          => /\ store'[j] = NoJob
             /\ \A u \in UserIds : j \notin userIndex'[u]
             /\ \A s \in JobStatus : j \notin statusIndex'[s]]_vars

\* C22: the record of a job that is PENDING, STARTED or PROCESSING is never
\* removed from the store, neither by TTL expiry nor by cleanup, however long
\* the job has been waiting.
C22_ActiveJobNeverEvicted ==
    [][\A j \in JobIds :
          (Stored(j) /\ store[j].status \in {PENDING, STARTED, PROCESSING})
              => store'[j] # NoJob]_vars

\* C23: create_job followed by get_job on the returned id yields a record
\* equal to the created one: status PENDING, progress 0, retry_count 0 and the
\* user, script, priority and max_retries that were passed; and the id is in
\* that user's index and in the PENDING index.
C23_CreateThenGet ==
    created_job # NotCalled =>
        /\ created_job.job_id \in userIndex[created_job.user_id]
        /\ created_job.job_id \in statusIndex[PENDING]
        /\ got_job # NotCalled =>
              /\ got_job = created_job.job
              /\ got_job.status = PENDING
              /\ got_job.progress = 0
              /\ got_job.retry_count = 0
              /\ got_job.user_id = created_job.user_id
              /\ got_job.script_id = created_job.script_id
              /\ got_job.priority = created_job.priority
              /\ got_job.max_retries = created_job.max_retries

\* A job of the second user with the lowest priority and no retries was created
\* and then read.
C23_Witness ==
    /\ created_job # NotCalled
    /\ got_job # NotCalled
    /\ got_job # NoJob
    /\ got_job.user_id = "u2"
    /\ got_job.priority = PriorityMax
    /\ got_job.max_retries = 0

\* C24: for a job that completes successfully, the events emitted to its room
\* are processing_started, then one or more progress_update events with
\* strictly increasing progress, then processing_completed, and nothing after.
C24_SuccessfulRunEvents ==
    LET n == Len(room_events) IN
    (\E i \in 1..n : room_events[i].event = "processing_completed") =>
        /\ n >= 3
        /\ room_events[1].event = "processing_started"
        /\ room_events[n].event = "processing_completed"
        /\ \A i \in 2..(n - 1) :
              /\ room_events[i].event = "progress_update"
              /\ i > 2 => room_events[i - 1].progress < room_events[i].progress

\* C25: a sid that has subscribed twice and unsubscribed once is still
\* subscribed: it is in the room and the next event emitted for the job
\* reaches it.
C25_SubscribeTwiceUnsubscribeOnce ==
    [][\A sid \in Sids :
          calls[sid] = <<"subscribe", "subscribe", "unsubscribe">> =>
              /\ sid \in room
              /\ Len(room_events') > Len(room_events) => sid \in delivered']_vars

\* C30: the events of a job reach the room in the order in which they were
\* produced: the progress updates of the executor thread in the order of its
\* callback calls, and the final progress 100 and processing_completed of
\* _process_video_async after all of them.
C30_EventsInProductionOrder ==
    \A i, k \in 1..Len(room_events) :
        i < k => room_events[i].seq < room_events[k].seq

\* The thread has returned while three of its callbacks are still waiting in
\* the loop's queue and some of its events have already reached the room.
C30_Witness ==
    /\ pushPc = "joining"
    /\ Len(ready) >= 3
    /\ Len(room_events) >= 4

\* C26: when an attempt has ended, on whatever path (success, a failing stage,
\* cancellation, soft or hard time limit), its working directory does not
\* exist.
C26_WorkDirRemoved ==
    \A j \in JobIds : pc[j] \in {"except", "on_failure", "ended", "queued"} => ~work_dir[j]

\* C27: once a cancel of a job has been acknowledged, the running attempt
\* passes no further progress value to the callback and changes neither
\* progress nor progress_message of the job.
C27_NoProgressAfterCancel ==
    [][\A j \in JobIds :
          (cancelResponse[j] = 200 /\ Stored(j) /\ store[j].status = CANCELLED
             /\ pc[j] = "generate")
          => /\ emitted'[j] = emitted[j]
             /\ store'[j] # NoJob =>
                   /\ store'[j].progress = store[j].progress
                   /\ store'[j].progress_message = store[j].progress_message]_vars

\* C28: when the process has been started again, every job that is still
\* PENDING in the job store (offered and never taken by a worker) has been
\* offered to the queue again, the oldest first.
C28_PendingJobsReofferedOnStartup ==
    [][restart =>
          \A i \in 1..Offered :
              history.takes[i] = 0 =>
                  /\ \E q \in 1..Len(queue') : queue'[q].job_id = i
                  /\ \A k \in 1..Offered :
                        (history.takes[k] = 0 /\ i < k) =>
                            \E q, r \in 1..Len(queue') :
                                q <= r /\ queue'[q].job_id = i /\ queue'[r].job_id = k]_vars

\* C29: when two clients have each completed a mutator on the same job, the
\* stored record is the result of the two mutators applied one after the
\* other, in one of the two orders, to the record that was stored before them.
C29_MutatorsSerializable ==
    \A j \in JobIds :
        (rmw["worker"].pc = "done" /\ rmw["api"].pc = "done") =>
            LET w == rmw["worker"].op
                a == rmw["api"].op
                before == from_dict(base)
            IN \/ store[j] = to_dict(apply_mutator(a, apply_mutator(w, before)))
               \/ store[j] = to_dict(apply_mutator(w, apply_mutator(a, before)))

\* The attempt of j failed in _generate_scenes (video_generation_service.py
\* 201-211, "No scenes generated from script"): the run had emitted 0.05 and
\* 0.10 and nothing more when generate_video's except branch emitted -1.
NoScenesAttempt(j) == emitted[j] = <<500, 1000, ErrorProgress>>

C32_DeadlineConsumesRetry ==
    [][\A j \in JobIds :
          (Readable(j) /\ store[j].retry_count < store[j].max_retries) =>
              /\ (on_failure(j) /\ store[j].status = FAILURE) =>
                    /\ store'[j].status = PENDING
                    /\ store'[j].retry_count = store[j].retry_count + 1
              /\ TaskTimeLimit(j) =>
                    /\ store'[j].status = PENDING
                    /\ store'[j].retry_count = store[j].retry_count + 1]_vars

\* The positions in the events of the room that hold a terminal event.
TerminalEvents ==
    {i \in 1..Len(room_events) :
        room_events[i].event \in {"processing_completed", "processing_failed"}}

\* C39: at most one terminal event is emitted for the attempt of a job, and
\* when the worker has ended the job exactly one: processing_completed or
\* processing_failed, never both and never one of them twice.
C39_OneTerminalEvent ==
    /\ Cardinality(TerminalEvents) <= 1
    /\ pushPc = "done" => Cardinality(TerminalEvents) = 1

\* C37: a stored job has a completion timestamp exactly when its status is
\* terminal, and a start timestamp only when it is not PENDING; a job that a
\* retry has returned to PENDING has neither.
C37_TimestampsMatchStatus ==
    \A j \in JobIds : Readable(j) =>
        /\ (get_job(j).completed_at # NoTime) <=> is_complete(get_job(j))
        /\ get_job(j).started_at # NoTime => get_job(j).status # PENDING

\* C36: when stop returns, no worker is executing a job: active_jobs is empty
\* and every job that a worker has taken has been moved to completed_jobs.
C36_StopDrainsWorkers ==
    [][stop_returns =>
          /\ active_jobs' = {}
          /\ \A t \in WorkerTasks : workerPc'[t] # "run" /\ workerJob'[t] = 0]_vars

\* C40: a failed video job that retry_video_job returns to PENDING is offered
\* to the JobQueue again (and so is taken by a worker later).
C40_RetriedVideoJobIsOffered ==
    [][\A j \in JobIds :
          retry_video_job(j) => \E q \in 1..Len(queue') : queue'[q].job_id = j]_vars

\* C33: every message of a submitted job is in the queue of its priority
\* class: videos.high for 1-3, videos.default for 4-7, videos.low for 8-10.
C33_EnqueuedInPriorityClass ==
    \A i \in 1..Len(broker) :
        broker[i].queue = get_queue_for_priority(broker[i].priority)

\* C34: for every status and limit, get_jobs_by_status returns its jobs in
\* ascending order of created_at.
C34_ListedByCreationTime ==
    \A status \in JobStatus, limit \in 1..MaxIndexJobs :
        LET jobs == get_jobs_by_status(status, limit) IN
        \A i, k \in 1..Len(jobs) : i < k => jobs[i].created_at <= jobs[k].created_at

\* C35: no Scene object belongs to the scenes of two attempts.
C35_ScenesPrivateToAttempt ==
    \A a, b \in DOMAIN attempt :
        a # b => \A i \in 1..Len(attempt[a].scenes), k \in 1..Len(attempt[b].scenes) :
                    attempt[a].scenes[i] # attempt[b].scenes[k]

\* C38: in every attempt, each VideoSegment has the duration of its audio
\* file, and the subtitles of each scene are moved by the sum of the
\* durations of the audio files of the scenes before it.
C38_ComposedDurationsAreMeasured ==
    \A a \in DOMAIN attempt :
        /\ \A i \in 1..Len(attempt[a].segments) :
              attempt[a].segments[i].duration = attempt[a].segments[i].audio_file.duration
        /\ \A i \in 1..Len(attempt[a].subtitle_offsets) :
              attempt[a].subtitle_offsets[i] =
                  SumSeq([k \in 1..(i - 1) |-> attempt[a].segments[k].audio_file.duration])

====
